---- MODULE Spec2Model ----
(***************************************************************************)
(* Model of cvxpygen.generate_code (src/cvxpygen.py): the construction of  *)
(* the affine maps, the compressed sparse-column encodings and the         *)
(* parameter -> canonical-array dependency relation for the OSQP and the   *)
(* ECOS layout, together with the handling of the target directory.        *)
(*                                                                         *)
(* Conventions.  Python sequences are TLA+ sequences; At(s, k) reads the   *)
(* element at Python index k (0-based).  Row indices, column pointers and  *)
(* column offsets keep their 0-based Python values.  A sparse matrix whose *)
(* rows are linear in the flattened parameter vector is a sequence of rows,*)
(* each a sequence of integers of length total_param_size + 1; a stored    *)
(* entry is a non-zero entry (the reduced matrices contain no explicitly   *)
(* stored zero, so scipy's nnz is the number of non-zero entries).         *)
(***************************************************************************)
EXTENDS Integers, Sequences, FiniteSets, TLC

\* ------------------------------------------------------------------ bounds
\* largest number of stored entries of the shared constraint matrix
MaxNnz == 3

\* Problem shapes the inputs are drawn from: n_var, n_eq, n_ineq, the sizes of
\* the two user parameters a and b, and whether a row of reduced_A may combine a
\* parameter column with the constant column.
Shapes ==
    { [n_var |-> 1, n_eq |-> 1, n_ineq |-> 0, sizes |-> << 1, 2 >>, affine |-> TRUE],
      [n_var |-> 2, n_eq |-> 0, n_ineq |-> 1, sizes |-> << 2, 1 >>, affine |-> TRUE],
      [n_var |-> 2, n_eq |-> 1, n_ineq |-> 0, sizes |-> << 1, 1 >>, affine |-> TRUE],
      [n_var |-> 1, n_eq |-> 1, n_ineq |-> 1, sizes |-> << 1, 1 >>, affine |-> TRUE],
      [n_var |-> 1, n_eq |-> 0, n_ineq |-> 2, sizes |-> << 1, 1 >>, affine |-> TRUE],
      [n_var |-> 1, n_eq |-> 2, n_ineq |-> 0, sizes |-> << 1, 1 >>, affine |-> TRUE],
      [n_var |-> 2, n_eq |-> 1, n_ineq |-> 1, sizes |-> << 1, 1 >>, affine |-> FALSE] }

\* the values an entry of the parameter vector is drawn from
ThetaValues == { 0, 1 }

\* ------------------------------------------------------------ Python helpers
At(s, k) == s[k + 1]

Range(n) == 0 .. (n - 1)

Min(S) == CHOOSE x \in S : \A y \in S : x <= y

RECURSIVE Sorted(_)
\* the elements of a finite set of integers as an ascending sequence
Sorted(S) == IF S = {} THEN << >> ELSE << Min(S) >> \o Sorted(S \ {Min(S)})

RECURSIVE SumTo(_, _)
\* f[1] + ... + f[n]
SumTo(f, n) == IF n = 0 THEN 0 ELSE f[n] + SumTo(f, n - 1)

\* ------------------------------------------------------------ sparse algebra
\* -M
Negate(M) == [r \in DOMAIN M |-> [c \in DOMAIN M[r] |-> 0 - M[r][c]]]

\* M[rows] for an integer index array rows
TakeRows(M, rows) == [k \in 1 .. Len(rows) |-> At(M, rows[k])]

\* M[lo:hi] for a slice of rows
SliceRows(M, lo, hi) == [k \in 1 .. (hi - lo) |-> At(M, lo + k - 1)]

\* M[:, lo:hi].nnz
Nnz(M, lo, hi) ==
    Cardinality({ rc \in (DOMAIN M) \X (lo .. (hi - 1)) : At(M[rc[1]], rc[2]) # 0 })

\* M @ v
MatVec(M, v) ==
    LET rows == M
    IN  [r \in DOMAIN rows |-> SumTo([c \in DOMAIN v |-> rows[r][c] * v[c]], Len(v))]

ZeroRow(ncols) == [c \in 1 .. ncols |-> 0]

\* ------------------------------------------------------------------- state
VARIABLES
    pc,                \* position in generate_code
    code_dir,          \* the target directory: "absent", "user", "template",
                       \* "solver_code" (template + solver sources), "generated"
    upstream,          \* "contract": get_problem_data honours the input contract;
                       \* "malformed": it may return an out-of-range row index
    solver_name,       \* solving_chain.solver.name()
    p_prob,            \* data['param_prob']
    n_var, n_eq, n_ineq,
    user_p_flat,       \* flattened parameter vector with the constant 1 appended
    i,                 \* number of canonical ids the mapping loop has completed
    canon_mappings, canon_p, canon_p_to_changes, canon_p_id_to_size,
    adjacency,         \* adjacency[i][j], both 1-based positions
    user_p_to_canon_outdated,
    error              \* the exception that ended the pass, "" if none

vars == << pc, code_dir, upstream, solver_name, p_prob, n_var, n_eq, n_ineq,
           user_p_flat, i, canon_mappings, canon_p, canon_p_to_changes,
           canon_p_id_to_size, adjacency, user_p_to_canon_outdated, error >>

\* ------------------------------------------------------- user parameters
CONSTANT_ID == 0 - 1

user_p_names == << "a", "b" >>

user_p_num == Len(user_p_names)

\* list(p_prob.param_id_to_col.keys())
user_p_ids == p_prob.param_ids

user_p_id_to_col == p_prob.param_id_to_col

user_p_total_size == p_prob.total_param_size

\* number of columns of every reduced matrix and of every affine map
NCols == user_p_total_size + 1

\* the slice left open at its end: slice(user_p_id_to_col[user_p_ids[j]], None)
ColumnSliceToEnd(j) == << user_p_id_to_col[At(user_p_ids, j)], NCols >>

\* the slice of the parameter's first column only
ColumnSliceOneColumn(j) ==
    << user_p_id_to_col[At(user_p_ids, j)], user_p_id_to_col[At(user_p_ids, j)] + 1 >>

\* slice(user_p_id_to_col[user_p_ids[j]], user_p_id_to_col[user_p_ids[j + 1]]),
\* as the pair << start, stop >>
ColumnSlice(j) ==
    << user_p_id_to_col[At(user_p_ids, j)], user_p_id_to_col[At(user_p_ids, j + 1)] >>

\* the constant column counted as well: mapping.nnz > 0
ChangesAnyColumn(mapping) == Nnz(mapping, 0, NCols) > 0

\* mapping[:, :-1].nnz > 0
Changes(mapping) == Nnz(mapping, 0, NCols - 1) > 0

\* the dependency loop stopping one parameter early: range(user_p_num - 1)
AdjacencyRowSkipLast(mapping) ==
    [j \in 1 .. user_p_num |->
        /\ j < user_p_num
        /\ Nnz(mapping, ColumnSlice(j - 1)[1], ColumnSlice(j - 1)[2]) > 0]

\* the row of the adjacency matrix the dependency loop fills for one mapping
AdjacencyRow(mapping) ==
    [j \in 1 .. user_p_num |->
        Nnz(mapping, ColumnSlice(j - 1)[1], ColumnSlice(j - 1)[2]) > 0]

\* ------------------------------------------------ scatter and recompress
RECURSIVE ScatterUpTo(_, _, _, _, _)
\* mapping_to_dense after the first n iterations of the scatter loop
ScatterUpTo(n, nrows, ncols, indices, mapping_to_sparse) ==
    IF n = 0
    THEN [r \in 1 .. nrows |-> ZeroRow(ncols)]
    ELSE [ScatterUpTo(n - 1, nrows, ncols, indices, mapping_to_sparse)
             EXCEPT ![indices[n] + 1] = mapping_to_sparse[n]]

\* the accumulator filled in iteration order, the true row index dropped
ScatterInOrder(nrows, ncols, indices, mapping_to_sparse) ==
    [r \in 1 .. nrows |->
        IF r <= Len(mapping_to_sparse) THEN mapping_to_sparse[r] ELSE ZeroRow(ncols)]

\* mapping_to_dense: every row of mapping_to_sparse scattered to its true row
\* index (a later row with the same index overwrites an earlier one)
Scatter(nrows, ncols, indices, mapping_to_sparse) ==
    ScatterUpTo(Len(mapping_to_sparse), nrows, ncols, indices, mapping_to_sparse)

\* the lil_matrix row assignment raises IndexError for a row index outside
\* the accumulator (no negative index arises: row indices are >= 0 and the
\* inequality rows selected have index >= n_eq)
ScatterRaises(nrows, indices) == \E k \in DOMAIN indices : indices[k] >= nrows

\* a constructor that drops the stored entries whose value is 0
CscMatrixPruned(data, indices, indptr, shape) ==
    LET keep == { k \in DOMAIN data : data[k] # 0 }
        ks == Sorted(keep)
    IN  [ data |-> [k \in DOMAIN ks |-> data[ks[k]]],
          indices |-> [k \in DOMAIN ks |-> indices[ks[k]]],
          indptr |-> [c \in DOMAIN indptr |->
                    Cardinality({ k \in keep : k <= indptr[c] })],
          shape |-> shape ]

\* sparse.csc_matrix((data, indices, indptr), shape=shape): the three arrays are
\* kept as given, explicit zeros included
CscMatrix(data, indices, indptr, shape) ==
    [ data |-> data, indices |-> indices, indptr |-> indptr, shape |-> shape ]

\* the format check of the csc_matrix constructor (check_format, not the full check)
CscFormatOk(data, indices, indptr, shape) ==
    /\ Len(indptr) = shape[2] + 1
    /\ At(indptr, 0) = 0
    /\ Len(indices) = Len(data)
    /\ At(indptr, Len(indptr) - 1) <= Len(indices)

\* ------------------------------------------------------------ ECOS layout
ECOS_ids == << "c", "d", "A", "b", "G", "h" >>

indices_AGbh == p_prob.problem_data_index.indices

indptr_AGbh == p_prob.problem_data_index.indptr

n_data_AGbh == Len(indices_AGbh)

n_data_bh == At(indptr_AGbh, Len(indptr_AGbh) - 1) - At(indptr_AGbh, Len(indptr_AGbh) - 2)

n_data_AG == n_data_AGbh - n_data_bh

\* np.nonzero(indices_AGbh < n_eq)[0]
mapping_rows_eq_ECOS ==
    Sorted({ k \in Range(n_data_AGbh) : At(indices_AGbh, k) < n_eq })

\* np.nonzero(indices_AGbh >= n_eq)[0]
mapping_rows_ineq ==
    Sorted({ k \in Range(n_data_AGbh) : At(indices_AGbh, k) >= n_eq })

IsUpper(p_id) == p_id \in { "P", "A", "G" }

ECOS_mapping_rows(p_id) ==
    CASE p_id = "A" -> SelectSeq(mapping_rows_eq_ECOS, LAMBDA k : k < n_data_AG)
      [] p_id = "G" -> SelectSeq(mapping_rows_ineq, LAMBDA k : k < n_data_AG)
      [] p_id = "b" -> SelectSeq(mapping_rows_eq_ECOS, LAMBDA k : k >= n_data_AG)
      [] p_id = "h" -> SelectSeq(mapping_rows_ineq, LAMBDA k : k >= n_data_AG)
      [] OTHER -> << >>

ECOS_shape(p_id) ==
    CASE p_id = "A" -> << n_eq, n_var >>
      [] p_id = "G" -> << n_ineq, n_var >>
      [] p_id = "b" -> << n_eq, 1 >>
      [] p_id = "h" -> << n_ineq, 1 >>
      [] OTHER -> << >>

\* the inequality rows keep their row index in the shared matrix
ECOS_indices_unshifted(p_id) ==
    LET mapping_rows == ECOS_mapping_rows(p_id)
    IN  [k \in 1 .. Len(mapping_rows) |-> At(indices_AGbh, mapping_rows[k])]

\* indices_AGbh[mapping_rows], less n_eq for the inequality rows
ECOS_indices(p_id) ==
    LET mapping_rows == ECOS_mapping_rows(p_id)
    IN  CASE p_id \in { "A", "b" } ->
                [k \in 1 .. Len(mapping_rows) |-> At(indices_AGbh, mapping_rows[k])]
          [] p_id \in { "G", "h" } ->
                [k \in 1 .. Len(mapping_rows) |-> At(indices_AGbh, mapping_rows[k]) - n_eq]
          [] OTHER -> << >>

\* indptr_AGbh[:-1]
indptr_original == SubSeq(indptr_AGbh, 1, Len(indptr_AGbh) - 1)

\* the columns c of range(ncols) with indptr_original[c] <= r < indptr_original[c + 1]
ColumnsHolding(r, ncols) ==
    { c \in Range(ncols) : At(indptr_original, c) <= r /\ r < At(indptr_original, c + 1) }

RECURSIVE IndptrOwnColumnOnly(_, _, _)
\* only the pointer after the row's column is raised: indptr[c + 1] += 1
IndptrOwnColumnOnly(n, mapping_rows, ncols) ==
    IF n = 0
    THEN [q \in DOMAIN indptr_original |-> 0]
    ELSE LET prev == IndptrOwnColumnOnly(n - 1, mapping_rows, ncols)
             cs == ColumnsHolding(mapping_rows[n], ncols)
         IN  IF cs = {}
             THEN prev
             ELSE [q \in DOMAIN prev |->
                      IF q - 1 = Min(cs) + 1 THEN prev[q] + 1 ELSE prev[q]]

RECURSIVE IndptrUpTo(_, _, _)
\* indptr after the first n rows of mapping_rows: the row's column is the first
\* c found, and indptr[c + 1:] += 1
IndptrUpTo(n, mapping_rows, ncols) ==
    IF n = 0
    THEN [q \in DOMAIN indptr_original |-> 0]
    ELSE LET prev == IndptrUpTo(n - 1, mapping_rows, ncols)
             cs == ColumnsHolding(mapping_rows[n], ncols)
         IN  IF cs = {}
             THEN prev
             ELSE [q \in DOMAIN prev |->
                      IF q - 1 >= Min(cs) + 1 THEN prev[q] + 1 ELSE prev[q]]

ECOS_indptr(p_id) ==
    LET mapping_rows == ECOS_mapping_rows(p_id)
    IN  IndptrUpTo(Len(mapping_rows), mapping_rows, ECOS_shape(p_id)[2])

\* the affine map of p_id: the constraint matrix negated, the constant vectors
\* scattered to their true row index
ECOS_mapping(p_id) ==
    CASE p_id = "c" -> SliceRows(p_prob.c, 0, Len(p_prob.c) - 1)
      [] p_id = "d" -> << At(p_prob.c, Len(p_prob.c) - 1) >>
      [] IsUpper(p_id) -> Negate(TakeRows(p_prob.reduced_A, ECOS_mapping_rows(p_id)))
      [] OTHER ->
            Scatter(ECOS_shape(p_id)[1], NCols, ECOS_indices(p_id),
                    TakeRows(p_prob.reduced_A, ECOS_mapping_rows(p_id)))

\* canon_p[p_id] for the parameter vector flat
ECOS_canon_p(p_id, flat) ==
    IF IsUpper(p_id)
    THEN CscMatrix(MatVec(ECOS_mapping(p_id), flat), ECOS_indices(p_id),
                   ECOS_indptr(p_id), ECOS_shape(p_id))
    ELSE MatVec(ECOS_mapping(p_id), flat)

\* the exception the iteration for p_id raises, "" if none
ECOS_raises(p_id) ==
    IF p_id \in { "b", "h" } /\ ScatterRaises(ECOS_shape(p_id)[1], ECOS_indices(p_id))
    THEN "IndexError"
    ELSE IF IsUpper(p_id)
            /\ ~CscFormatOk(ECOS_mapping_rows(p_id), ECOS_indices(p_id),
                            ECOS_indptr(p_id), ECOS_shape(p_id))
         THEN "ValueError"
         ELSE ""

\* ------------------------------------------------------------ OSQP layout
OSQP_ids == << "P", "q", "d", "A", "l", "u" >>

\* -np.inf, a value below every finite value the model reaches
NegInf == -1000000

indices_P == p_prob.problem_data_index_P.indices

indptr_P == p_prob.problem_data_index_P.indptr

indices_Alu == p_prob.problem_data_index_A.indices

indptr_Alu == p_prob.problem_data_index_A.indptr

n_data_Alu == Len(indices_Alu)

n_data_lu == At(indptr_Alu, Len(indptr_Alu) - 1) - At(indptr_Alu, Len(indptr_Alu) - 2)

n_data_A == n_data_Alu - n_data_lu

\* np.nonzero(indices_Alu < n_eq)[0]
mapping_rows_eq_OSQP ==
    Sorted({ k \in Range(n_data_Alu) : At(indices_Alu, k) < n_eq })

OSQP_mapping_rows(p_id) ==
    CASE p_id = "l" -> SelectSeq(mapping_rows_eq_OSQP, LAMBDA k : k >= n_data_A)
      [] p_id = "u" -> [k \in 1 .. (n_data_Alu - n_data_A) |-> n_data_A + k - 1]
      [] OTHER -> << >>

OSQP_shape(p_id) ==
    CASE p_id = "P" -> << n_var, n_var >>
      [] p_id = "A" -> << n_eq + n_ineq, n_var >>
      [] p_id = "l" -> << n_eq, 1 >>
      [] p_id = "u" -> << n_eq + n_ineq, 1 >>
      [] OTHER -> << >>

OSQP_indices(p_id) ==
    CASE p_id = "P" -> indices_P
      [] p_id = "A" -> SubSeq(indices_Alu, 1, n_data_A)
      [] p_id \in { "l", "u" } ->
            LET mapping_rows == OSQP_mapping_rows(p_id)
            IN  [k \in 1 .. Len(mapping_rows) |-> At(indices_Alu, mapping_rows[k])]
      [] OTHER -> << >>

OSQP_indptr(p_id) ==
    CASE p_id = "P" -> indptr_P
      [] p_id = "A" -> SubSeq(indptr_Alu, 1, Len(indptr_Alu) - 1)
      [] OTHER -> << >>

\* the bound rows accumulated in iteration order
OSQP_mapping_in_order(p_id) ==
    CASE p_id = "P" -> p_prob.reduced_P
      [] p_id = "q" -> SliceRows(p_prob.q, 0, Len(p_prob.q) - 1)
      [] p_id = "d" -> << At(p_prob.q, Len(p_prob.q) - 1) >>
      [] p_id = "A" -> SliceRows(p_prob.reduced_A, 0, n_data_A)
      [] OTHER ->
            ScatterInOrder(OSQP_shape(p_id)[1], NCols, OSQP_indices(p_id),
                    Negate(TakeRows(p_prob.reduced_A, OSQP_mapping_rows(p_id))))

\* the affine map of p_id; the bound rows are negated and scattered to their
\* true row index
OSQP_mapping(p_id) ==
    CASE p_id = "P" -> p_prob.reduced_P
      [] p_id = "q" -> SliceRows(p_prob.q, 0, Len(p_prob.q) - 1)
      [] p_id = "d" -> << At(p_prob.q, Len(p_prob.q) - 1) >>
      [] p_id = "A" -> SliceRows(p_prob.reduced_A, 0, n_data_A)
      [] OTHER ->
            Scatter(OSQP_shape(p_id)[1], NCols, OSQP_indices(p_id),
                    Negate(TakeRows(p_prob.reduced_A, OSQP_mapping_rows(p_id))))

\* the finite part alone, the inequality rows omitted
LowerBoundFiniteOnly(canon_p_data) == canon_p_data

\* np.concatenate((canon_p_data, -np.inf*np.ones(n_ineq)), axis=0)
LowerBound(canon_p_data) == canon_p_data \o [k \in 1 .. n_ineq |-> NegInf]

\* canon_p[p_id] for the parameter vector flat
OSQP_canon_p(p_id, flat) ==
    IF IsUpper(p_id)
    THEN CscMatrix(MatVec(OSQP_mapping(p_id), flat), OSQP_indices(p_id),
                   OSQP_indptr(p_id), OSQP_shape(p_id))
    ELSE IF p_id = "l"
         THEN LowerBound(MatVec(OSQP_mapping(p_id), flat))
         ELSE MatVec(OSQP_mapping(p_id), flat)

\* the exception the iteration for p_id raises, "" if none
OSQP_raises(p_id) ==
    IF p_id \in { "l", "u" } /\ ScatterRaises(OSQP_shape(p_id)[1], OSQP_indices(p_id))
    THEN "IndexError"
    ELSE IF IsUpper(p_id)
            /\ ~CscFormatOk(OSQP_mapping(p_id), OSQP_indices(p_id),
                            OSQP_indptr(p_id), OSQP_shape(p_id))
         THEN "ValueError"
         ELSE ""

\* ------------------------------------------------- the upstream reduction
\* What problem.get_problem_data returns.  The reduced matrices follow the
\* contract of the reduction layer: the stored entries of the shared matrix are
\* listed column by column with ascending row index inside a column, no cell is
\* stored twice, every reduced row has a non-zero entry, and the parameter
\* offsets ascend in parameter order with the constant entry last.

UnitRow(ncols, u) == [c \in 1 .. ncols |-> IF c = u THEN 1 ELSE 0]

\* the rows a reduced matrix is built from: one parameter column or the constant
\* column and, if affine, the first parameter column plus a constant offset
RowSet(ncols, affine) ==
    { UnitRow(ncols, u) : u \in 1 .. ncols }
        \cup (IF affine
              THEN { [c \in 1 .. ncols |-> IF c \in { 1, ncols } THEN 1 ELSE 0] }
              ELSE { })

\* the compressed sparse-column index of a set of cells <<row, column>>
PatternIndex(cells, nrows, ncols) ==
    LET keys == Sorted({ cell[2] * nrows + cell[1] : cell \in cells })
    IN  [ indices |-> [k \in DOMAIN keys |-> keys[k] % nrows],
          indptr |-> [c \in 1 .. (ncols + 1) |->
                         Cardinality({ cell \in cells : cell[2] < c - 1 })] ]

Patterns(nrows, ncols, most) ==
    { cells \in SUBSET (Range(nrows) \X Range(ncols)) : Cardinality(cells) <= most }

ParamLayout(sizes) ==
    [ param_ids |-> << 0, 1, CONSTANT_ID >>,
      param_id_to_col |->
          [id \in { 0, 1, CONSTANT_ID } |->
              IF id = 0 THEN 0 ELSE IF id = 1 THEN sizes[1] ELSE sizes[1] + sizes[2]],
      param_id_to_size |-> [id \in { 0, 1 } |-> sizes[id + 1]],
      total_param_size |-> sizes[1] + sizes[2] ]

\* the quadratic cost of the toy program: P = a*P0 + b*P1 on the diagonal
ToyP(nv, sizes) ==
    [ index |-> [ indices |-> [k \in 1 .. nv |-> k - 1],
                  indptr |-> [c \in 1 .. (nv + 1) |-> c - 1] ],
      reduced |-> [k \in 1 .. nv |->
                     UnitRow(sizes[1] + sizes[2] + 1, IF k = 1 THEN 1 ELSE sizes[1] + 1)] ]

\* the linear cost of the toy program: q = b*q1, no constant offset
ToyQ(nv, sizes) ==
    [k \in 1 .. (nv + 1) |->
        IF k <= nv THEN UnitRow(sizes[1] + sizes[2] + 1, sizes[1] + 1)
        ELSE ZeroRow(sizes[1] + sizes[2] + 1)]

\* the cost data: the toy cost beside a non-empty constraint pattern; every
\* linear cost, or every diagonal quadratic cost, beside an empty one
LinearCosts(nv, sizes, rich) ==
    IF rich
    THEN [1 .. (nv + 1) -> RowSet(sizes[1] + sizes[2] + 1, TRUE)
                              \cup { ZeroRow(sizes[1] + sizes[2] + 1) }]
    ELSE { ToyQ(nv, sizes) }

QuadraticCosts(nv, sizes, rich) ==
    IF rich
    THEN UNION { { [ index |-> PatternIndex({ << k, k >> : k \in D }, nv, nv),
                     reduced |-> rows ] :
                        rows \in [1 .. Cardinality(D) -> RowSet(sizes[1] + sizes[2] + 1, TRUE)] } :
                 D \in SUBSET Range(nv) }
    ELSE { ToyP(nv, sizes) }

\* a stored row index of the shared matrix replaced by one past the last row
Malformed(index, nrows) ==
    { [index EXCEPT !.indices[k] = nrows] : k \in DOMAIN index.indices }

ConstraintData(sh, how) ==
    LET nrows == sh.n_eq + sh.n_ineq
        ncols == sh.sizes[1] + sh.sizes[2] + 1
        good == UNION { { [ index |-> PatternIndex(cells, nrows, sh.n_var + 1),
                            reduced_A |-> rows ] :
                              rows \in [1 .. Cardinality(cells) -> RowSet(ncols, sh.affine)] } :
                        cells \in Patterns(nrows, sh.n_var + 1, MaxNnz) }
    IN  IF how = "contract"
        THEN good
        ELSE UNION { { [ index |-> bad, reduced_A |-> g.reduced_A ] :
                          bad \in Malformed(g.index, nrows) } : g \in good }

QuadProgs(sh, how) ==
    UNION { { ParamLayout(sh.sizes) @@
              [ reduced_A |-> cd.reduced_A, problem_data_index_A |-> cd.index,
                reduced_P |-> qc.reduced, problem_data_index_P |-> qc.index,
                q |-> lc ] :
                  qc \in QuadraticCosts(sh.n_var, sh.sizes, FALSE),
                  lc \in LinearCosts(sh.n_var, sh.sizes, cd.reduced_A = << >>) }
            \cup
            { ParamLayout(sh.sizes) @@
              [ reduced_A |-> cd.reduced_A, problem_data_index_A |-> cd.index,
                reduced_P |-> qc.reduced, problem_data_index_P |-> qc.index,
                q |-> lc ] :
                  qc \in QuadraticCosts(sh.n_var, sh.sizes, cd.reduced_A = << >>),
                  lc \in LinearCosts(sh.n_var, sh.sizes, FALSE) } :
            cd \in ConstraintData(sh, how) }

ConeProgs(sh, how) ==
    UNION { { ParamLayout(sh.sizes) @@
              [ reduced_A |-> cd.reduced_A, problem_data_index |-> cd.index, c |-> lc ] :
                  lc \in LinearCosts(sh.n_var, sh.sizes, cd.reduced_A = << >>) } :
            cd \in ConstraintData(sh, how) }

\* every solver name the solving chain may report; SCS stands for the solvers
\* generate_code has no layout for
Solvers == { "OSQP", "ECOS", "SCS" }

ParamProbs(solver, sh, how) ==
    CASE solver = "OSQP" -> QuadProgs(sh, how)
      [] solver = "ECOS" -> ConeProgs(sh, how)
      [] OTHER -> { pp \in ConeProgs(sh, "contract") : Len(pp.reduced_A) <= 1 }

\* the parameter vectors: p.value of every parameter, flattened, and the constant
ParameterVectors(total) ==
    { theta \o << 1 >> : theta \in [1 .. total -> ThetaValues] }

\* ----------------------------------------------------------------- actions
NoData ==
    /\ solver_name = ""
    /\ p_prob = << >>
    /\ n_var = 0 /\ n_eq = 0 /\ n_ineq = 0
    /\ user_p_flat = << >>
    /\ i = 0
    /\ canon_mappings = << >>
    /\ canon_p = << >>
    /\ canon_p_to_changes = << >>
    /\ canon_p_id_to_size = << >>
    /\ adjacency = << >>
    /\ user_p_to_canon_outdated = << >>
    /\ error = ""

\* generate_code is called on a problem; code_dir may hold an earlier project
Init ==
    /\ pc = "start"
    /\ code_dir \in { "absent", "user" }
    /\ upstream = "contract"
    /\ NoData

\* the same call when the reduction layer hands over an inconsistent row index
InitMalformed ==
    /\ pc = "start"
    /\ code_dir \in { "absent", "user" }
    /\ upstream = "malformed"
    /\ NoData

\* copy TEMPLATE: an existing code_dir is removed, then the template is copied
CopyTemplate ==
    /\ pc = "start"
    /\ code_dir' = "template"
    /\ pc' = "get_problem_data"
    /\ UNCHANGED << upstream, solver_name, p_prob, n_var, n_eq, n_ineq, user_p_flat, i,
                    canon_mappings, canon_p, canon_p_to_changes, canon_p_id_to_size,
                    adjacency, user_p_to_canon_outdated, error >>

\* problem.get_problem_data and the structural sizes read from it
GetProblemData ==
    /\ pc = "get_problem_data"
    /\ \E solver \in Solvers, sh \in Shapes :
         \E pp \in ParamProbs(solver, sh, upstream) :
            /\ solver_name' = solver
            /\ p_prob' = pp
            /\ n_var' = sh.n_var
            /\ n_eq' = sh.n_eq
            /\ n_ineq' = sh.n_ineq
    /\ pc' = "user_parameters"
    /\ UNCHANGED << code_dir, upstream, user_p_flat, i, canon_mappings, canon_p,
                    canon_p_to_changes, canon_p_id_to_size, adjacency,
                    user_p_to_canon_outdated, error >>

\* the user parameters and their flattened values
UserParameters ==
    /\ pc = "user_parameters"
    /\ user_p_flat' \in ParameterVectors(user_p_total_size)
    /\ pc' = "canon"
    /\ UNCHANGED << code_dir, upstream, solver_name, p_prob, n_var, n_eq, n_ineq, i,
                    canon_mappings, canon_p, canon_p_to_changes, canon_p_id_to_size,
                    adjacency, user_p_to_canon_outdated, error >>

\* what one iteration of a mapping loop records for p_id
Record(p_id, mapping, value) ==
    /\ canon_mappings' = Append(canon_mappings, mapping)
    /\ canon_p_to_changes' = canon_p_to_changes @@ (p_id :> Changes(mapping))
    /\ canon_p_id_to_size' = canon_p_id_to_size @@ (p_id :> Len(mapping))
    /\ adjacency' = Append(adjacency, AdjacencyRow(mapping))
    /\ canon_p' = canon_p @@ (p_id :> value)
    /\ i' = i + 1

Raise(exception) ==
    /\ pc' = "error"
    /\ error' = exception
    /\ UNCHANGED << i, canon_mappings, canon_p, canon_p_to_changes, canon_p_id_to_size,
                    adjacency >>

\* one iteration of the loop over the OSQP canonical ids
OSQP_iteration ==
    /\ pc = "canon"
    /\ solver_name = "OSQP"
    /\ i < Len(OSQP_ids)
    /\ LET p_id == At(OSQP_ids, i)
       IN  IF OSQP_raises(p_id) # ""
           THEN Raise(OSQP_raises(p_id))
           ELSE /\ Record(p_id, OSQP_mapping(p_id), OSQP_canon_p(p_id, user_p_flat))
                /\ UNCHANGED << pc, error >>
    /\ UNCHANGED << code_dir, upstream, solver_name, p_prob, n_var, n_eq, n_ineq,
                    user_p_flat, user_p_to_canon_outdated >>

\* a row index of A outside the matrix
OSQP_A_out_of_range ==
    \E k \in DOMAIN canon_p["A"].indices : canon_p["A"].indices[k] >= n_eq + n_ineq

\* OSQP codegen: osqp_obj.setup and osqp_obj.codegen into code_dir/c/solver_code;
\* whether setup rejects a row index outside A is left open
OSQP_codegen ==
    /\ pc = "canon"
    /\ solver_name = "OSQP"
    /\ i = Len(OSQP_ids)
    /\ \E rejected \in (IF OSQP_A_out_of_range THEN BOOLEAN ELSE { FALSE }) :
          IF rejected
          THEN /\ pc' = "error"
               /\ error' = "ValueError"
               /\ UNCHANGED code_dir
          ELSE /\ pc' = "write"
               /\ code_dir' = "solver_code"
               /\ UNCHANGED error
    /\ UNCHANGED << upstream, solver_name, p_prob, n_var, n_eq, n_ineq, user_p_flat, i,
                    canon_mappings, canon_p, canon_p_to_changes, canon_p_id_to_size,
                    adjacency, user_p_to_canon_outdated >>

\* one iteration of the loop over the ECOS canonical ids
ECOS_iteration ==
    /\ pc = "canon"
    /\ solver_name = "ECOS"
    /\ i < Len(ECOS_ids)
    /\ LET p_id == At(ECOS_ids, i)
       IN  IF ECOS_raises(p_id) # ""
           THEN Raise(ECOS_raises(p_id))
           ELSE /\ Record(p_id, ECOS_mapping(p_id), ECOS_canon_p(p_id, user_p_flat))
                /\ UNCHANGED << pc, error >>
    /\ UNCHANGED << code_dir, upstream, solver_name, p_prob, n_var, n_eq, n_ineq,
                    user_p_flat, user_p_to_canon_outdated >>

\* copy sources: the ECOS sources are copied into code_dir/c/solver_code and the
\* template's build files are adjusted
ECOS_copy_sources ==
    /\ pc = "canon"
    /\ solver_name = "ECOS"
    /\ i = Len(ECOS_ids)
    /\ pc' = "write"
    /\ code_dir' = "solver_code"
    /\ UNCHANGED << upstream, solver_name, p_prob, n_var, n_eq, n_ineq, user_p_flat, i,
                    canon_mappings, canon_p, canon_p_to_changes, canon_p_id_to_size,
                    adjacency, user_p_to_canon_outdated, error >>

\* raise ValueError("Problem class cannot be addressed by the OSQP or ECOS solver!")
UnsupportedSolver ==
    /\ pc = "canon"
    /\ solver_name \notin { "OSQP", "ECOS" }
    /\ pc' = "error"
    /\ error' = "ValueError"
    /\ UNCHANGED << code_dir, upstream, solver_name, p_prob, n_var, n_eq, n_ineq,
                    user_p_flat, i, canon_mappings, canon_p, canon_p_to_changes,
                    canon_p_id_to_size, adjacency, user_p_to_canon_outdated >>

canon_p_ids == IF solver_name = "OSQP" THEN OSQP_ids ELSE ECOS_ids

\* [canon_p_ids[j] for j in np.nonzero(adjacency[:, n])[0]] for the n-th parameter
Outdated(n) ==
    LET js == Sorted({ j \in DOMAIN adjacency : adjacency[j][n] })
    IN  [k \in DOMAIN js |-> canon_p_ids[js[k]]]

\* the outdated sets, then the workspace, solve, example, binding and
\* documentation files are written into code_dir
WriteOutput ==
    /\ pc = "write"
    /\ user_p_to_canon_outdated' =
          [name \in { user_p_names[n] : n \in DOMAIN user_p_names } |->
              Outdated(CHOOSE n \in DOMAIN user_p_names : user_p_names[n] = name)]
    /\ code_dir' = "generated"
    /\ pc' = "done"
    /\ UNCHANGED << upstream, solver_name, p_prob, n_var, n_eq, n_ineq, user_p_flat, i,
                    canon_mappings, canon_p, canon_p_to_changes, canon_p_id_to_size,
                    adjacency, error >>

Next ==
    \/ CopyTemplate
    \/ GetProblemData
    \/ UserParameters
    \/ OSQP_iteration
    \/ OSQP_codegen
    \/ ECOS_iteration
    \/ ECOS_copy_sources
    \/ UnsupportedSolver
    \/ WriteOutput

Spec == Init /\ [][Next]_vars

SpecMalformed == InitMalformed /\ [][Next]_vars

\* ---------------------------------------------------- reading the results
\* The shared sparse matrix S, read independently of the mapping loops: the
\* stored entry at position k (0-based) lies in row indices[k] and in the last
\* column whose pointer is <= k; its value is the k-th value of reduced_A @ flat.
SharedIndex ==
    IF solver_name = "OSQP" THEN p_prob.problem_data_index_A ELSE p_prob.problem_data_index

ColumnAt(indptr, k) == Cardinality({ c \in DOMAIN indptr : indptr[c] <= k }) - 1

\* the stored entries <<row, column, value>> of a compressed sparse-column triple
Entries(data, indices, indptr) ==
    { << indices[k], ColumnAt(indptr, k - 1), data[k] >> : k \in DOMAIN data }

S(flat) == Entries(MatVec(p_prob.reduced_A, flat), SharedIndex.indices, SharedIndex.indptr)

Decoded(m) == Entries(m.data, m.indices, m.indptr)

\* the dense column of S's last column on the rows lo .. hi - 1, shifted down by lo
LastColumn(flat, lo, hi) ==
    [r \in 1 .. (hi - lo) |->
        LET es == { e \in S(flat) : e[2] = n_var /\ e[1] = lo + r - 1 }
        IN  IF es = {} THEN 0 ELSE (CHOOSE e \in es : TRUE)[3]]

LoopDone(solver) ==
    /\ solver_name = solver
    /\ pc \in { "canon", "write", "done" }
    /\ i = Len(canon_p_ids)

\* C1: in the ECOS layout A and G are the sparse encodings of -S on the equality
\* rows and on the inequality rows (shifted down by n_eq) of the first n_var
\* columns, b and h are the dense last column of S on the equality and on the
\* inequality rows, value, row index and column pointer of an entry agree, and
\* every stored entry of S lands in exactly one of A, G, b, h.
C1_EcosLayout ==
    LoopDone("ECOS") =>
        LET flat == user_p_flat
            nb == Cardinality({ e \in S(flat) : e[2] = n_var /\ e[1] < n_eq })
            nh == Cardinality({ e \in S(flat) : e[2] = n_var /\ e[1] >= n_eq })
        IN  /\ canon_p["A"].shape = << n_eq, n_var >>
            /\ canon_p["G"].shape = << n_ineq, n_var >>
            /\ Len(canon_p["A"].data) = Len(canon_p["A"].indices)
            /\ Len(canon_p["G"].data) = Len(canon_p["G"].indices)
            /\ Decoded(canon_p["A"]) =
                  { << e[1], e[2], 0 - e[3] >> : e \in { f \in S(flat) : f[1] < n_eq /\ f[2] < n_var } }
            /\ Decoded(canon_p["G"]) =
                  { << e[1] - n_eq, e[2], 0 - e[3] >> :
                        e \in { f \in S(flat) : f[1] >= n_eq /\ f[2] < n_var } }
            /\ canon_p["b"] = LastColumn(flat, 0, n_eq)
            /\ canon_p["h"] = LastColumn(flat, n_eq, n_eq + n_ineq)
            /\ Len(canon_p["A"].data) + Len(canon_p["G"].data) + nb + nh = Len(SharedIndex.indices)
            /\ Cardinality(Decoded(canon_p["A"])) = Len(canon_p["A"].data)
            /\ Cardinality(Decoded(canon_p["G"])) = Len(canon_p["G"].data)

\* an ECOS pass has finished with entries in A, in G and in h, and an
\* inequality row without a stored constant
C1_Witness ==
    /\ pc = "done"
    /\ solver_name = "ECOS"
    /\ Len(canon_p["A"].data) > 0
    /\ Len(canon_p["G"].data) > 0
    /\ \E r \in DOMAIN canon_p["h"] : canon_p["h"][r] # 0
    /\ \E e \in Decoded(canon_p["G"]) : e[3] < 0
    /\ n_data_bh < n_eq + n_ineq

\* C2: in the OSQP layout A is S's first n_var columns with sign, pattern and
\* shape unchanged, u is the negated last column of S at the true row indices
\* (0 where nothing is stored), and l agrees with u on the n_eq equality rows.
C2_OsqpLayout ==
    LoopDone("OSQP") =>
        LET flat == user_p_flat
        IN  /\ canon_p["A"].shape = << n_eq + n_ineq, n_var >>
            /\ canon_p["A"].indices = SubSeq(SharedIndex.indices, 1, Len(canon_p["A"].indices))
            /\ canon_p["A"].indptr = SubSeq(SharedIndex.indptr, 1, n_var + 1)
            /\ Len(canon_p["A"].data) = Len(canon_p["A"].indices)
            /\ Decoded(canon_p["A"]) = { e \in S(flat) : e[2] < n_var }
            /\ Cardinality(Decoded(canon_p["A"])) = Len(canon_p["A"].data)
            /\ Len(canon_p["u"]) = n_eq + n_ineq
            /\ \A r \in DOMAIN canon_p["u"] :
                  canon_p["u"][r] = 0 - LastColumn(flat, 0, n_eq + n_ineq)[r]
            /\ \A r \in 1 .. n_eq : canon_p["l"][r] = canon_p["u"][r]

\* an OSQP pass has finished where the bound entries are stored out of row
\* order relative to their position, and an equality row has a non-zero bound
C2_Witness ==
    /\ pc = "done"
    /\ solver_name = "OSQP"
    /\ Len(canon_p["A"].data) > 0
    /\ n_eq > 0
    /\ canon_p["u"][n_eq] # 0
    /\ canon_p["l"][n_eq] # 0
    /\ \E r \in DOMAIN canon_p["u"] : canon_p["u"][r] = 0
    /\ n_data_lu > 0
    /\ At(indices_Alu, n_data_A) > 0

\* the position (1-based) of a canonical id in the loop order
PositionOf(p_id) == CHOOSE k \in DOMAIN canon_p_ids : canon_p_ids[k] = p_id

\* the columns (0-based) of the n-th user parameter in the flattened vector
ParamColumns(n) ==
    LET id == At(p_prob.param_ids, n - 1)
    IN  p_prob.param_id_to_col[id] .. (p_prob.param_id_to_col[id] + p_prob.param_id_to_size[id] - 1)

\* the affine map M has a non-zero entry in one of the columns cols
NonZeroIn(M, cols) == \E r \in DOMAIN M : \E c \in cols : At(M[r], c) # 0

InOutdated(p_id, n) ==
    \E k \in DOMAIN user_p_to_canon_outdated[user_p_names[n]] :
        user_p_to_canon_outdated[user_p_names[n]][k] = p_id

PassDone == pc = "done"

\* the toy quadratic program of the specification: two variables, two scalar
\* parameters, P = a*P0 + b*P1 and q = b*q1
ToyProgram ==
    /\ solver_name = "OSQP"
    /\ n_var = 2
    /\ p_prob.total_param_size = 2
    /\ p_prob.reduced_P = ToyP(2, << 1, 1 >>).reduced
    /\ p_prob.q = ToyQ(2, << 1, 1 >>)

\* C3: a canonical array is in a parameter's outdated set exactly when its
\* affine map has a non-zero entry in that parameter's columns col_j ..
\* col_j + size_j - 1 (the constant column creates no dependency); in the toy
\* program the outdated set of a holds P and not q.
C3_OutdatedIffColumnBlock ==
    PassDone =>
        /\ \A n \in DOMAIN user_p_names : \A k \in DOMAIN canon_p_ids :
              InOutdated(canon_p_ids[k], n) <=> NonZeroIn(canon_mappings[k], ParamColumns(n))
        /\ ToyProgram => InOutdated("P", 1) /\ ~InOutdated("q", 1)

\* the toy program has been processed, and some array with a constant offset is
\* in no outdated set while another is outdated for b only
C3_Witness ==
    /\ PassDone
    /\ ToyProgram
    /\ InOutdated("P", 1) /\ InOutdated("P", 2) /\ InOutdated("q", 2)
    /\ \E k \in DOMAIN canon_p_ids :
          /\ NonZeroIn(canon_mappings[k], { NCols - 1 })
          /\ \A n \in DOMAIN user_p_names : ~InOutdated(canon_p_ids[k], n)

\* the parameter vectors that differ from flat at most in the n-th parameter
PerturbOnly(flat, n) ==
    { other \in ParameterVectors(user_p_total_size) :
        \A c \in Range(user_p_total_size) \ ParamColumns(n) : At(other, c) = At(flat, c) }

\* C4: for a pair marked not-adjacent, changing only that parameter's entries
\* leaves every value of the array unchanged; for a pair marked adjacent, some
\* change of only that parameter's entries changes a value of the array.
C4_DependencySoundness ==
    PassDone =>
        \A n \in DOMAIN user_p_names : \A k \in DOMAIN canon_p_ids :
            IF adjacency[k][n]
            THEN \E other \in PerturbOnly(user_p_flat, n) :
                    MatVec(canon_mappings[k], other) # MatVec(canon_mappings[k], user_p_flat)
            ELSE \A other \in PerturbOnly(user_p_flat, n) :
                    MatVec(canon_mappings[k], other) = MatVec(canon_mappings[k], user_p_flat)

\* a pass has finished with an adjacent and a not-adjacent pair for a parameter
\* of size two, the array of the adjacent pair depending on its second column
C4_Witness ==
    /\ PassDone
    /\ \E n \in DOMAIN user_p_names :
          /\ Cardinality(ParamColumns(n)) = 2
          /\ \E k \in DOMAIN canon_p_ids :
                /\ adjacency[k][n]
                /\ ~NonZeroIn(canon_mappings[k], { p_prob.param_id_to_col[At(p_prob.param_ids, n - 1)] })
          /\ \E k \in DOMAIN canon_p_ids :
                /\ ~adjacency[k][n]
                /\ Len(canon_mappings[k]) > 0

\* C5: an array whose affine map is zero outside the constant column is flagged
\* parameter-invariant and is in the outdated set of no user parameter.
C5_InvariantArraysExcluded ==
    PassDone =>
        \A k \in DOMAIN canon_p_ids :
            ~NonZeroIn(canon_mappings[k], Range(NCols - 1)) =>
                /\ ~canon_p_to_changes[canon_p_ids[k]]
                /\ \A n \in DOMAIN user_p_names : ~InOutdated(canon_p_ids[k], n)

\* a pass has finished with a matrix-shaped array that has a constant offset and
\* no parameter dependency, beside an array that varies
C5_Witness ==
    /\ PassDone
    /\ \E k \in DOMAIN canon_p_ids :
          /\ ~NonZeroIn(canon_mappings[k], Range(NCols - 1))
          /\ NonZeroIn(canon_mappings[k], { NCols - 1 })
          /\ IsUpper(canon_p_ids[k])
    /\ \E k \in DOMAIN canon_p_ids : canon_p_to_changes[canon_p_ids[k]]

\* C6: in the OSQP layout l has n_eq + n_ineq entries, its n_ineq inequality
\* rows hold the negative-infinity sentinel for every parameter assignment, and
\* these rows are no rows of l's affine map, which has exactly n_eq rows, the
\* recorded size of l.
C6_Sentinel ==
    LoopDone("OSQP") =>
        /\ Len(canon_p["l"]) = n_eq + n_ineq
        /\ \A r \in (n_eq + 1) .. (n_eq + n_ineq) : canon_p["l"][r] = NegInf
        /\ \A r \in 1 .. n_eq : canon_p["l"][r] # NegInf
        /\ Len(canon_mappings[PositionOf("l")]) = n_eq
        /\ canon_p_id_to_size["l"] = n_eq

\* an OSQP pass has finished with equality and inequality rows, the finite part
\* of l being outdated for a parameter
C6_Witness ==
    /\ PassDone
    /\ solver_name = "OSQP"
    /\ n_eq > 0 /\ n_ineq > 0
    /\ \E n \in DOMAIN user_p_names : InOutdated("l", n)
    /\ canon_p["l"][n_eq] # 0

MatrixIds == IF solver_name = "OSQP" THEN { "P", "A" } ELSE { "A", "G" }

\* what the pass computes for p_id under the parameter vector flat
CanonP(p_id, flat) ==
    IF solver_name = "OSQP" THEN OSQP_canon_p(p_id, flat) ELSE ECOS_canon_p(p_id, flat)

Mapping(p_id) == IF solver_name = "OSQP" THEN OSQP_mapping(p_id) ELSE ECOS_mapping(p_id)

\* C7: the pass run on the same structure with any other parameter assignment
\* yields the same row indices, column pointers and shape for every
\* matrix-shaped array, and the same affine maps, adjacency and invariance flags.
C7_StructuralInvariance ==
    PassDone =>
        /\ \A other \in ParameterVectors(user_p_total_size) : \A p_id \in MatrixIds :
              LET again == CanonP(p_id, other)
              IN  /\ again.indices = canon_p[p_id].indices
                  /\ again.indptr = canon_p[p_id].indptr
                  /\ again.shape = canon_p[p_id].shape
                  /\ Len(again.data) = Len(canon_p[p_id].data)
        /\ \A k \in DOMAIN canon_p_ids :
              LET mapping == Mapping(canon_p_ids[k])
              IN  /\ canon_mappings[k] = mapping
                  /\ adjacency[k] = AdjacencyRow(mapping)
                  /\ canon_p_to_changes[canon_p_ids[k]] = Changes(mapping)

\* a pass has finished with a stored value of 0 in a matrix-shaped array that
\* another parameter assignment makes non-zero
C7_Witness ==
    /\ PassDone
    /\ \E p_id \in MatrixIds : \E k \in DOMAIN canon_p[p_id].data :
          /\ canon_p[p_id].data[k] = 0
          /\ \E other \in ParameterVectors(user_p_total_size) :
                CanonP(p_id, other).data[k] # 0

\* the structural entries <<row, column, value>> a matrix-shaped array must hold
StructuralEntries(p_id, flat) ==
    CASE p_id = "P" -> Entries(MatVec(p_prob.reduced_P, flat), indices_P, indptr_P)
      [] p_id = "A" /\ solver_name = "OSQP" -> { e \in S(flat) : e[2] < n_var }
      [] p_id = "A" /\ solver_name = "ECOS" ->
            { e \in S(flat) : e[2] < n_var /\ e[1] < n_eq }
      [] OTHER -> { e \in S(flat) : e[2] < n_var /\ e[1] >= n_eq }

\* C8: for every matrix-shaped array the column pointers have one entry more
\* than the array has columns, start at 0, never decrease, end at the number of
\* stored values (the number of row indices), and consecutive pointers differ
\* by the number of the array's structural entries in that column; every row
\* index is a row of the array.
C8_ColumnPointers ==
    PassDone =>
        \A p_id \in MatrixIds :
            LET m == canon_p[p_id]
                es == StructuralEntries(p_id, user_p_flat)
            IN  /\ Len(m.indptr) = m.shape[2] + 1
                /\ At(m.indptr, 0) = 0
                /\ \A c \in Range(m.shape[2]) :
                      /\ At(m.indptr, c) <= At(m.indptr, c + 1)
                      /\ At(m.indptr, c + 1) - At(m.indptr, c) =
                            Cardinality({ e \in es : e[2] = c })
                /\ At(m.indptr, m.shape[2]) = Len(m.data)
                /\ Len(m.indices) = Len(m.data)
                /\ \A k \in DOMAIN m.indices : m.indices[k] \in Range(m.shape[1])

\* an ECOS pass has finished where a column holds entries of G only, so A's
\* consecutive pointers are equal there, and another column is structurally zero
C8_Witness ==
    /\ PassDone
    /\ solver_name = "ECOS"
    /\ \E c \in Range(n_var) :
          /\ At(canon_p["A"].indptr, c) = At(canon_p["A"].indptr, c + 1)
          /\ At(canon_p["G"].indptr, c) < At(canon_p["G"].indptr, c + 1)
    /\ \E c \in Range(n_var) : At(indptr_AGbh, c) = At(indptr_AGbh, c + 1)
    /\ n_eq > 0

\* C9: when the solver is neither OSQP nor ECOS, generate_code has failed with
\* code_dir neither deleted, created nor written and with no canonical map emitted.
C9_NoOutputOnUnsupportedSolver ==
    (pc = "error" /\ solver_name \notin { "OSQP", "ECOS" }) =>
        /\ code_dir \in { "absent", "user" }
        /\ canon_mappings = << >>
        /\ canon_p = << >>

\* a stored row index of the shared matrix is no row of the constraint block
MalformedInput ==
    /\ p_prob # << >>
    /\ solver_name \in { "OSQP", "ECOS" }
    /\ \E k \in DOMAIN SharedIndex.indices : SharedIndex.indices[k] >= n_eq + n_ineq

\* C10: a row index inconsistent with the structural constants makes
\* generate_code fail instead of continuing with wrong data (stated for the ECOS
\* layout, where every step up to the written files is code of generate_code).
C10_MalformedInputRejected ==
    (MalformedInput /\ solver_name = "ECOS") => pc # "done"

\* the columns of the block the dependency loop uses for the j-th parameter
\* (0-based j): from its offset up to the offset of the next key of the table
Block(j) == ColumnSlice(j)[1] .. (ColumnSlice(j)[2] - 1)

\* C11: every canonical array flagged as varying with the parameters is in the
\* outdated set of at least one user parameter; the column blocks of the
\* dependency loop are pairwise disjoint and together cover the columns
\* 0 .. total_param_size - 1 (the offset table ascends, the constant entry last).
C11_NoStaleArrays ==
    PassDone =>
        /\ \A k \in DOMAIN canon_p_ids :
              canon_p_to_changes[canon_p_ids[k]] =>
                  \E n \in DOMAIN user_p_names : InOutdated(canon_p_ids[k], n)
        /\ \A j1, j2 \in Range(user_p_num) : j1 # j2 => Block(j1) \cap Block(j2) = { }
        /\ UNION { Block(j) : j \in Range(user_p_num) } = Range(user_p_total_size)

\* a pass has finished with an array that varies through the last parameter
\* only, that parameter having two columns and the array using its second one
C11_Witness ==
    /\ PassDone
    /\ Cardinality(ParamColumns(user_p_num)) = 2
    /\ \E k \in DOMAIN canon_p_ids :
          /\ canon_p_to_changes[canon_p_ids[k]]
          /\ InOutdated(canon_p_ids[k], user_p_num)
          /\ \A n \in 1 .. (user_p_num - 1) : ~InOutdated(canon_p_ids[k], n)
          /\ NonZeroIn(canon_mappings[k], { user_p_total_size - 1 })

====
